---- MODULE Spec2Model ----
(***************************************************************************)
(* Playback orchestration of the PHS video player.                         *)
(*                                                                         *)
(* The repository holds two builds of the same program:                    *)
(*   "app" : the single-file program src/phs_video_player/app.py (the      *)
(*           console entry point named by setup.py);                       *)
(*   "pkg" : the package split over config.py, video_player.py, routes.py  *)
(*           and websocket.py.                                             *)
(* The variable `variant` says which build a behaviour belongs to.  Every  *)
(* request handler is a thread that works through the list of its          *)
(* remaining program points (`todo`), so that the background threads (the  *)
(* snapshot sampler, the status broadcaster, the media engine) interleave  *)
(* with it between any two statements.                                     *)
(***************************************************************************)
EXTENDS Integers, Sequences, FiniteSets, TLC

\* ------------------------------------------------------------- bounds
MaxVideos == 2       \* longest video list of a scan or of an update request
MaxSamplers == 2     \* sampler threads that may exist at once
MaxStatusThreads == 2 \* status threads that may exist at once
MaxSubscribers == 2  \* subscribers connected at once
MaxCalls == 3        \* get_video_metadata calls per path

Paths == {"a.mp4", "b.mp4"}
Orders == {0, 1}
Variants == {"app", "pkg"}
Handlers == {"h1", "h2"}
Main == "h1"
NoOne == "none"

\* A configuration entry, reduced to the fields the playlist reads.
Entry == [path : Paths, enabled : BOOLEAN, order : Orders]

RECURSIVE SeqsUpTo(_, _)
SeqsUpTo(S, n) ==
  IF n = 0 THEN {<<>>}
  ELSE LET shorter == SeqsUpTo(S, n - 1)
       IN shorter \cup {Append(s, e) : s \in {t \in shorter : Len(t) = n - 1}, e \in S}

\* The `videos` list of an update request: any entries, in any order.
Requests == SeqsUpTo(Entry, MaxVideos)

DistinctPaths(vs) == \A i, j \in 1..Len(vs) : vs[i].path = vs[j].path => i = j

\* What a directory scan leaves in config['videos']: one entry per file.
ScanResults == {vs \in Requests : DistinctPaths(vs)}

\* ------------------------------------------------------------- state
VARIABLES
  variant,          \* which build runs
  disk_ok,          \* the configuration file can be written
  ready,            \* construction has finished: requests are served
  videos,           \* config['videos']
  preview_enabled,  \* config['preview_enabled']
  todo,             \* per handler: the program points it still has to run
  result,           \* per handler: "none" | "success" | "error" | "404"
  idx,              \* per handler: update_playlist's position in enabled_videos
  enabled_videos,   \* per handler: update_playlist's local list
  pe,               \* per handler: _start_or_stop_preview's local preview_enabled
  cmds,             \* per handler: engine commands of its current update_playlist
  playCount,        \* play commands issued since the last stop command
  notifyCount,      \* per handler: broadcasts of its current update_playlist
  media_list,       \* the engine's media list: <<[path, old]>>
  mlLock,           \* holder of media_list.lock()
  engine,           \* "stopped" | "opening" | "playing" | "error"
  mode,             \* "default" | "loop"
  cur,              \* index of the active item, 0 when there is none
  wsManager,        \* player.websocket_manager is set
  samplers,         \* per sampler thread: its program point
  tickEnabled,      \* per sampler thread: preview was enabled when its tick began
  snapshot_thread,  \* player.snapshot_thread: 0 (None) or a thread
  snapshot_lock,    \* holder of player.snapshot_lock
  file,             \* the snapshot file: "absent" | "partial" | "complete"
  capturedSince,    \* a capture succeeded since preview was last enabled
  fd,               \* per handler: the snapshot file as opened by send_file
  running,          \* WebSocketManager.running
  status_thread,    \* WebSocketManager.status_thread: 0 (None) or a thread
  statusThreads,    \* per status thread: its program point
  sentAtStart,      \* per status thread: what its connection had been sent
  emitted,          \* per status thread: it has emitted a status_update
  sent,             \* per handler: messages its connect handler has emitted
  subscribers,      \* subscribers connected now
  everConnected,    \* a subscriber has connected at some time
  playerMedia,      \* player.get_media(): the path of its media, "None" before any
  st,               \* per handler: the status its read has assembled
  saves,            \* per handler: outcomes of the file writes of its last request
  lastList,         \* the media list as the last completed update_playlist left it
  changedSince,     \* an enabled or order value changed since that call
  scanned,          \* the directory scan of load_config has run
  shut,             \* the shutdown began while no request was being handled
  media_files,      \* per path: the file as the metadata engine finds it
  metadata_cache,   \* player.metadata_cache: the set of its (path, metadata) items
  extractions,      \* per path: times the media was opened for extraction
  returned,         \* per path: what get_video_metadata returned, call by call
  resolvers,        \* per caller of get_video_metadata: its position in the call
  scannedPaths,     \* the paths the directory scan has produced
  playlist_event,   \* per handler: the playlist its update_playlist has broadcast
  overlapped        \* the latest update request began while another was being handled

envVars == <<variant, disk_ok>>
cfgVars == <<videos, preview_enabled>>
callVars == <<idx, enabled_videos, cmds, playCount, notifyCount>>
engVars == <<media_list, mlLock, engine, mode, cur>>
prevVars == <<samplers, tickEnabled, snapshot_thread, snapshot_lock, file, capturedSince>>
wsVars == <<running, status_thread, statusThreads, sentAtStart, emitted, sent>>
subVars == <<subscribers, everConnected>>
buildVars == <<lastList, changedSince>>
mdVars == <<media_files, metadata_cache, extractions, returned>>
runVars == <<resolvers, scannedPaths, playlist_event, overlapped>>
extVars == <<subVars, playerMedia, st, saves, buildVars, scanned, shut, mdVars, runVars>>
vars == <<envVars, extVars, ready, cfgVars, todo, result, pe, callVars, engVars, wsManager,
          prevVars, fd, wsVars>>

\* ------------------------------------------------------------- helpers
At(h, label) == todo[h] # <<>> /\ Head(todo[h]) = label
Idle(h) == todo[h] = <<>>
Step(h) == todo' = [todo EXCEPT ![h] = Tail(@)]
Goto(h, rest) == todo' = [todo EXCEPT ![h] = rest]

\* sorted(..., key=order): Python's sort is stable, modelled as the insertion of
\* each element behind every element whose key is not larger.
RECURSIVE InsertByOrder(_, _)
InsertByOrder(v, s) ==
  IF s = <<>> THEN <<v>>
  ELSE IF s[Len(s)].order <= v.order THEN Append(s, v)
       ELSE Append(InsertByOrder(v, SubSeq(s, 1, Len(s) - 1)), s[Len(s)])

RECURSIVE SortedByOrder(_)
SortedByOrder(s) ==
  IF s = <<>> THEN <<>>
  ELSE InsertByOrder(s[Len(s)], SortedByOrder(SubSeq(s, 1, Len(s) - 1)))

IsEnabled(v) == v.enabled

Lowest(S) == CHOOSE s \in S : \A t \in S : s <= t
Highest(S) == CHOOSE s \in S : \A t \in S : t <= s

Reverse(s) == [i \in 1..Len(s) |-> s[Len(s) + 1 - i]]

\* A sort that is not stable: entries with equal order come out reversed.
get_enabled_videos_unstable(vs) == SortedByOrder(Reverse(SelectSeq(vs, IsEnabled)))

\* ConfigManager.get_enabled_videos (app.py: the same expression inline).
get_enabled_videos(vs) == SortedByOrder(SelectSeq(vs, IsEnabled))

\* ConfigManager.update_videos: the new list has one entry per request entry,
\* in request order, with the request's path, enabled and order.
update_videos_list(req) == [i \in 1..Len(req) |->
  [path |-> req[i].path, enabled |-> req[i].enabled, order |-> req[i].order]]

\* ------------------------------------------------------------- program points
\* VideoPlayer.update_playlist, statement by statement.
UP_pkg == <<"up_stop", "up_lock", "up_clear", "up_get", "up_add", "up_unlock",
            "up_mode", "up_play", "up_notify", "up_ret">>
UP_app == <<"up_stop", "up_lock", "up_clear", "up_get", "up_add", "up_unlock",
            "up_mode", "up_play", "up_ret">>
update_playlist_steps == IF variant = "pkg" THEN UP_pkg ELSE UP_app

\* VideoPlayer._start_or_stop_preview.
start_or_stop_preview_steps == <<"ssp_threads", "ssp_cleanup">>

\* The start of the program: the directory scan of load_config where it has
\* not run yet, then VideoPlayer.__init__ of each build from the loaded
\* configuration on.
construct_steps ==
  (IF scanned THEN <<>> ELSE <<"load_config">>) \o
  (IF variant = "pkg"
   THEN start_or_stop_preview_steps \o UP_pkg \o <<"set_wsm">>
   ELSE <<"app_save">> \o UP_app \o start_or_stop_preview_steps \o <<"app_ready">>)


\* ------------------------------------------------------------- metadata values
MsPerMinute == 60000

\* Durations media.get_duration() reports, in milliseconds; -1 is "unknown".
DurationsMs == {-1, 0, 1, 59999, 60000, 60001, 90000}
MediaFiles == [ms : DurationsMs, ok : BOOLEAN, titled : BOOLEAN]

\* Rounding down instead of up.
CeilDiv_floor(a, b) == a \div b

\* math.ceil(a / b) for integers a and b > 0 (the quotient of every duration
\* below 2^53 ms is exact enough for the ceiling of the float to be the
\* ceiling of the fraction).
CeilDiv(a, b) == -((-a) \div b)

\* os.path.splitext(os.path.basename(path))[0] with '_' and '-' replaced by
\* spaces, title-cased.
FileTitle(p) == IF p = "a.mp4" THEN "A" ELSE "B"

\* The metadata of the except branch.
DegradedMetadata(p) == [title |-> FileTitle(p), description |-> "", duration |-> 0]

\* The metadata of a successful extraction from file f.
ExtractedMetadata(p, f) ==
  [title |-> IF f.titled THEN "Embedded" ELSE FileTitle(p),
   description |-> IF f.titled THEN "About" ELSE "",
   duration |-> CeilDiv(f.ms, MsPerMinute)]

\* What an extraction from the file of path p yields as the files are in fs:
\* the parsed metadata, or the degraded one when anything raises.
MetadataOf(p, fs) ==
  IF fs[p].ok THEN ExtractedMetadata(p, fs[p]) ELSE DegradedMetadata(p)

\* The calls of get_video_metadata that the scan of app.py makes, one per
\* listed file: the cache, the number of extractions and the returned values
\* after them.  The package build's scan makes no such call.
ScanCache(v, cache, F, fs) ==
  IF v = "app"
  THEN cache \cup {[path |-> p, meta |-> MetadataOf(p, fs)] :
                     p \in {q \in F : ~\E c \in cache : c.path = q}}
  ELSE cache

ScanExtractions(v, cache, ex, F) ==
  [p \in Paths |-> IF v = "app" /\ p \in F /\ ~\E c \in cache : c.path = p
                   THEN ex[p] + 1 ELSE ex[p]]

ScanReturned(v, cache, ret, F, fs) ==
  [p \in Paths |->
     IF v = "app" /\ p \in F
     THEN IF \E c \in cache : c.path = p
          THEN Append(ret[p], [value |-> (CHOOSE c \in cache : c.path = p).meta,
                               opened |-> FALSE, failed |-> FALSE, ms |-> fs[p].ms])
          ELSE Append(ret[p], [value |-> MetadataOf(p, fs), opened |-> TRUE,
                               failed |-> ~fs[p].ok, ms |-> fs[p].ms])
     ELSE ret[p]]

PathsOf(vs) == {vs[i].path : i \in 1..Len(vs)}

\* A caller of get_video_metadata that is not inside a call.
Resolvers == {"r1", "r2"}
NoCall == [pc |-> "idle", path |-> "None", meta |-> "None"]

\* ------------------------------------------------------------- initial state
SamplerIds == 1..MaxSamplers
StatusIds == 1..MaxStatusThreads
LockId(h) == IF h = "h1" THEN -1 ELSE -2

\* The status dictionary before any of its three values has been read.
NoStatus == [playing |-> FALSE, current_time |-> 0, current_video |-> "None", raised |-> FALSE]

\* The state when VideoPlayer.__init__ starts on a loaded configuration `vs`
\* of build `v`: nothing plays, no thread runs, no snapshot exists.  Where the
\* directory scan has run, the cache holds what the scan's calls left in it.
InitOf(vset, vsset, pset) ==
  /\ variant \in vset
  /\ disk_ok = TRUE
  /\ ready = FALSE
  /\ videos \in vsset
  /\ preview_enabled \in pset
  /\ todo = [h \in Handlers |-> IF h = Main THEN construct_steps ELSE <<>>]
  /\ result = [h \in Handlers |-> "none"]
  /\ idx = [h \in Handlers |-> 0]
  /\ enabled_videos = [h \in Handlers |-> <<>>]
  /\ pe = [h \in Handlers |-> FALSE]
  /\ cmds = [h \in Handlers |-> <<>>]
  /\ playCount = 0
  /\ notifyCount = [h \in Handlers |-> 0]
  /\ media_list = <<>>
  /\ mlLock = NoOne
  /\ engine = "stopped"
  /\ mode = "default"
  /\ cur = 0
  /\ wsManager = FALSE
  /\ samplers = [s \in SamplerIds |-> "none"]
  /\ tickEnabled = [s \in SamplerIds |-> FALSE]
  /\ snapshot_thread = 0
  /\ snapshot_lock = 0
  /\ file = "absent"
  /\ capturedSince = FALSE
  /\ fd = [h \in Handlers |-> "closed"]
  /\ running = FALSE
  /\ status_thread = 0
  /\ statusThreads = [t \in StatusIds |-> "none"]
  /\ sentAtStart = [t \in StatusIds |-> <<>>]
  /\ emitted = [t \in StatusIds |-> FALSE]
  /\ sent = [h \in Handlers |-> <<>>]
  /\ subscribers = 0
  /\ everConnected = FALSE
  /\ playerMedia = "None"
  /\ st = [h \in Handlers |-> NoStatus]
  /\ saves = [h \in Handlers |-> <<>>]
  /\ lastList = <<>>
  /\ changedSince = TRUE
  /\ shut = "no"
  /\ scannedPaths = IF scanned THEN PathsOf(videos) ELSE {}
  /\ metadata_cache = ScanCache(variant, {}, scannedPaths, media_files)
  /\ extractions = ScanExtractions(variant, {}, [p \in Paths |-> 0], scannedPaths)
  /\ returned = ScanReturned(variant, {}, [p \in Paths |-> <<>>], scannedPaths, media_files)
  /\ resolvers = [r \in Resolvers |-> NoCall]
  /\ playlist_event = [h \in Handlers |-> <<>>]
  /\ overlapped = FALSE

\* The configuration has been loaded and scanned; the metadata engine plays
\* no part.
Loaded ==
  /\ scanned = TRUE
  /\ media_files = [p \in Paths |-> [ms |-> 0, ok |-> TRUE, titled |-> FALSE]]

\* ------------------------------------------------------------- directory scan
\* os.listdir(video_dir), video files only: every file once, in any order.
Listings == {fs \in SeqsUpTo(Paths, MaxVideos) : \A i, j \in 1..Len(fs) : fs[i] = fs[j] => i = j}


\* A scan that makes a fresh entry for every file.
update_video_list_fresh(old, files) ==
  [i \in 1..Len(files) |-> [path |-> files[i], enabled |-> TRUE, order |-> i - 1]]

\* ConfigManager._update_video_list (app.py: the loop of load_config): one
\* entry per file, in listing order.  A file whose path is in the old
\* configuration keeps that entry's enabled and order (pkg looks it up in a
\* dict built from the list, so the last entry of a path counts; app.py takes
\* the first); a new file is enabled, its order the number of entries before it.
update_video_list(old, files) ==
  [i \in 1..Len(files) |->
     LET hits == {j \in 1..Len(old) : old[j].path = files[i]}
     IN IF hits = {}
        THEN [path |-> files[i], enabled |-> TRUE, order |-> i - 1]
        ELSE LET e == old[IF variant = "pkg" THEN Highest(hits) ELSE Lowest(hits)]
             IN [path |-> files[i], enabled |-> e.enabled, order |-> e.order]]

\* load_config: the configuration read from the file is merged with what the
\* video directory holds.  app.py asks get_video_metadata for every listed
\* file on the way; ConfigManager._update_video_list does not.
load_config(h) ==
  /\ At(h, "load_config")
  /\ \E files \in Listings :
       LET F == {files[i] : i \in 1..Len(files)}
       IN /\ videos' = update_video_list(videos, files)
          /\ scannedPaths' = scannedPaths \cup F
          /\ metadata_cache' = ScanCache(variant, metadata_cache, F, media_files)
          /\ extractions' = ScanExtractions(variant, metadata_cache, extractions, F)
          /\ returned' = ScanReturned(variant, metadata_cache, returned, F, media_files)
  /\ scanned' = TRUE
  /\ Step(h)
  /\ UNCHANGED <<envVars, subVars, playerMedia, st, saves, buildVars, shut, media_files,
                 resolvers, playlist_event, overlapped, ready, preview_enabled, result, pe,
                 callVars,
                 engVars, wsManager, prevVars, fd, wsVars>>

\* ------------------------------------------------------------- the metadata cache
Cached(p) == \E c \in metadata_cache : c.path = p
CacheOf(p) == (CHOOSE c \in metadata_cache : c.path = p).meta

\* A failed extraction whose degraded result is returned but not cached.
get_video_metadata_uncached_failure(p) ==
  /\ Len(returned[p]) < MaxCalls
  /\ IF Cached(p)
     THEN /\ returned' = [returned EXCEPT ![p] =
                 Append(@, [value |-> CacheOf(p), opened |-> FALSE, failed |-> FALSE,
                            ms |-> media_files[p].ms])]
          /\ UNCHANGED <<metadata_cache, extractions>>
     ELSE LET m == IF media_files[p].ok THEN ExtractedMetadata(p, media_files[p])
                   ELSE DegradedMetadata(p)
          IN /\ extractions' = [extractions EXCEPT ![p] = @ + 1]
             /\ metadata_cache' = IF media_files[p].ok
                                  THEN metadata_cache \cup {[path |-> p, meta |-> m]}
                                  ELSE metadata_cache
             /\ returned' = [returned EXCEPT ![p] =
                   Append(@, [value |-> m, opened |-> TRUE, failed |-> ~media_files[p].ok,
                              ms |-> media_files[p].ms])]
  /\ UNCHANGED <<envVars, subVars, playerMedia, st, saves, buildVars, scanned, shut, media_files,
                 runVars, ready, cfgVars, todo, result, pe, callVars, engVars, wsManager, prevVars,
                 fd, wsVars>>

\* VideoPlayer.get_video_metadata(path): a cache hit returns the cached
\* value; a miss opens the media, and both the extracted metadata and, when
\* anything raises, the degraded one are cached and returned.
get_video_metadata(p) ==
  /\ Len(returned[p]) < MaxCalls
  /\ IF Cached(p)
     THEN /\ returned' = [returned EXCEPT ![p] =
                 Append(@, [value |-> CacheOf(p), opened |-> FALSE, failed |-> FALSE,
                            ms |-> media_files[p].ms])]
          /\ UNCHANGED <<metadata_cache, extractions>>
     ELSE LET m == IF media_files[p].ok THEN ExtractedMetadata(p, media_files[p])
                   ELSE DegradedMetadata(p)
          IN /\ extractions' = [extractions EXCEPT ![p] = @ + 1]
             /\ metadata_cache' = metadata_cache \cup {[path |-> p, meta |-> m]}
             /\ returned' = [returned EXCEPT ![p] =
                   Append(@, [value |-> m, opened |-> TRUE, failed |-> ~media_files[p].ok,
                              ms |-> media_files[p].ms])]
  /\ UNCHANGED <<envVars, subVars, playerMedia, st, saves, buildVars, scanned, shut, media_files,
                 runVars, ready, cfgVars, todo, result, pe, callVars, engVars, wsManager, prevVars,
                 fd, wsVars>>

\* A file the engine could not read becomes readable, or the reverse.
MediaChanges(p) ==
  /\ media_files' = [media_files EXCEPT ![p].ok = ~@]
  /\ UNCHANGED <<envVars, subVars, playerMedia, st, saves, buildVars, scanned, shut,
                 metadata_cache, extractions, returned, runVars, ready, cfgVars, todo, result, pe,
                 callVars, engVars, wsManager, prevVars, fd, wsVars>>

\* get_video_metadata(path) statement by statement, for callers on several
\* threads.  `if path in self.metadata_cache: return self.metadata_cache[path]`
md_check(r, p) ==
  /\ resolvers[r].pc = "idle"
  /\ Len(returned[p]) < MaxCalls
  /\ IF Cached(p)
     THEN /\ returned' = [returned EXCEPT ![p] =
                 Append(@, [value |-> CacheOf(p), opened |-> FALSE, failed |-> FALSE,
                            ms |-> media_files[p].ms])]
          /\ UNCHANGED resolvers
     ELSE /\ resolvers' = [resolvers EXCEPT ![r] = [pc |-> "miss", path |-> p, meta |-> "None"]]
          /\ UNCHANGED returned
  /\ UNCHANGED <<envVars, subVars, playerMedia, st, saves, buildVars, scanned, shut, media_files,
                 metadata_cache, extractions, scannedPaths, playlist_event, overlapped, ready, cfgVars,
                 todo, result, pe, callVars, engVars, wsManager, prevVars, fd, wsVars>>

\* media_new, parse and the reads of the try block, or its except branch: the
\* local `metadata` is built from the file as it is now.
md_extract(r) ==
  /\ resolvers[r].pc = "miss"
  /\ resolvers' = [resolvers EXCEPT ![r] =
        [pc |-> IF media_files[@.path].ok THEN "extracted" ELSE "failed",
         path |-> @.path, meta |-> MetadataOf(@.path, media_files)]]
  /\ extractions' = [extractions EXCEPT ![resolvers[r].path] = @ + 1]
  /\ UNCHANGED <<envVars, subVars, playerMedia, st, saves, buildVars, scanned, shut, media_files,
                 metadata_cache, returned, scannedPaths, playlist_event, overlapped, ready, cfgVars,
                 todo, result, pe, callVars, engVars, wsManager, prevVars, fd, wsVars>>

\* self.metadata_cache[path] = metadata; return metadata: the assignment
\* replaces whatever the dict holds for the path.
md_store(r) ==
  /\ resolvers[r].pc \in {"extracted", "failed"}
  /\ LET p == resolvers[r].path
     IN /\ metadata_cache' = {c \in metadata_cache : c.path # p}
                                \cup {[path |-> p, meta |-> resolvers[r].meta]}
        /\ returned' = [returned EXCEPT ![p] =
              Append(@, [value |-> resolvers[r].meta, opened |-> TRUE,
                         failed |-> resolvers[r].pc = "failed", ms |-> media_files[p].ms])]
  /\ resolvers' = [resolvers EXCEPT ![r] = NoCall]
  /\ UNCHANGED <<envVars, subVars, playerMedia, st, saves, buildVars, scanned, shut, media_files,
                 extractions, scannedPaths, playlist_event, overlapped, ready, cfgVars,
                 todo, result, pe, callVars, engVars, wsManager, prevVars, fd, wsVars>>

resolve(r) ==
  \/ \E p \in Paths : md_check(r, p)
  \/ md_extract(r)
  \/ md_store(r)

\* ------------------------------------------------------------- update_playlist
\* self.list_player.stop()
up_stop(h) ==
  /\ At(h, "up_stop")
  /\ engine' = "stopped"
  /\ cur' = 0
  /\ cmds' = [cmds EXCEPT ![h] = <<"stop">>]
  /\ playCount' = 0
  /\ notifyCount' = [notifyCount EXCEPT ![h] = 0]
  /\ Step(h)
  /\ UNCHANGED <<envVars, extVars, ready, cfgVars, result, pe, idx, enabled_videos, media_list,
                 mlLock, mode, wsManager, prevVars, fd, wsVars>>

\* A lock that does not wait for its holder.
up_lock_unguarded(h) ==
  /\ At(h, "up_lock")
  /\ mlLock' = h
  /\ media_list' = [i \in 1..Len(media_list) |-> [media_list[i] EXCEPT !.old = TRUE]]
  /\ Step(h)
  /\ UNCHANGED <<envVars, extVars, ready, cfgVars, result, pe, callVars, engine, mode, cur,
                 wsManager, prevVars, fd, wsVars>>

\* self.media_list.lock(): from here on every item in the list is an old one.
up_lock(h) ==
  /\ At(h, "up_lock")
  /\ mlLock = NoOne
  /\ mlLock' = h
  /\ media_list' = [i \in 1..Len(media_list) |-> [media_list[i] EXCEPT !.old = TRUE]]
  /\ Step(h)
  /\ UNCHANGED <<envVars, extVars, ready, cfgVars, result, pe, callVars, engine, mode, cur,
                 wsManager, prevVars, fd, wsVars>>

\* The clearing loop left out: the old items stay in the list.
up_clear_skipped(h) ==
  /\ At(h, "up_clear")
  /\ Step(h)
  /\ UNCHANGED <<envVars, extVars, ready, cfgVars, result, pe, callVars, engVars, wsManager,
                 prevVars, fd, wsVars>>

\* `if` in place of `while`: one item at most is removed.
up_clear_one(h) ==
  /\ At(h, "up_clear")
  /\ IF Len(media_list) > 0
     THEN /\ media_list' = Tail(media_list)
          /\ cmds' = [cmds EXCEPT ![h] = Append(@, "remove_index")]
     ELSE UNCHANGED <<media_list, cmds>>
  /\ Step(h)
  /\ UNCHANGED <<envVars, extVars, ready, cfgVars, result, pe, idx, enabled_videos, playCount,
                 notifyCount, mlLock, engine, mode, cur, wsManager, prevVars, fd, wsVars>>

\* while self.media_list.count() > 0: self.media_list.remove_index(0)
up_clear(h) ==
  /\ At(h, "up_clear")
  /\ IF Len(media_list) > 0
     THEN /\ media_list' = Tail(media_list)
          /\ cmds' = [cmds EXCEPT ![h] = Append(@, "remove_index")]
          /\ UNCHANGED todo
     ELSE /\ Step(h)
          /\ UNCHANGED <<media_list, cmds>>
  /\ UNCHANGED <<envVars, extVars, ready, cfgVars, result, pe, idx, enabled_videos, playCount,
                 notifyCount, mlLock, engine, mode, cur, wsManager, prevVars, fd, wsVars>>

\* enabled_videos = self.config_manager.get_enabled_videos()
up_get(h) ==
  /\ At(h, "up_get")
  /\ enabled_videos' = [enabled_videos EXCEPT ![h] = get_enabled_videos(videos)]
  /\ idx' = [idx EXCEPT ![h] = 1]
  /\ Step(h)
  /\ UNCHANGED <<envVars, extVars, ready, cfgVars, result, pe, cmds, playCount, notifyCount,
                 engVars, wsManager, prevVars, fd, wsVars>>

\* for video in enabled_videos: self.media_list.add_media(media_new(video['path']))
up_add(h) ==
  /\ At(h, "up_add")
  /\ IF idx[h] <= Len(enabled_videos[h])
     THEN /\ media_list' = Append(media_list,
                                  [path |-> enabled_videos[h][idx[h]].path, old |-> FALSE])
          /\ idx' = [idx EXCEPT ![h] = @ + 1]
          /\ cmds' = [cmds EXCEPT ![h] = Append(@, "add_media")]
          /\ UNCHANGED todo
     ELSE /\ Step(h)
          /\ UNCHANGED <<media_list, idx, cmds>>
  /\ UNCHANGED <<envVars, extVars, ready, cfgVars, result, pe, enabled_videos, playCount,
                 notifyCount, mlLock, engine, mode, cur, wsManager, prevVars, fd, wsVars>>

\* self.media_list.unlock()
up_unlock(h) ==
  /\ At(h, "up_unlock")
  /\ mlLock' = NoOne
  /\ Step(h)
  /\ UNCHANGED <<envVars, extVars, ready, cfgVars, result, pe, callVars, media_list, engine, mode,
                 cur, wsManager, prevVars, fd, wsVars>>

\* The playback mode left as it is.
up_mode_skipped(h) ==
  /\ At(h, "up_mode")
  /\ Step(h)
  /\ UNCHANGED <<envVars, extVars, ready, cfgVars, result, pe, callVars, engVars, wsManager,
                 prevVars, fd, wsVars>>

\* self.list_player.set_playback_mode(vlc.PlaybackMode.loop)
up_mode(h) ==
  /\ At(h, "up_mode")
  /\ mode' = "loop"
  /\ Step(h)
  /\ UNCHANGED <<envVars, extVars, ready, cfgVars, result, pe, callVars, media_list, mlLock, engine,
                 cur, wsManager, prevVars, fd, wsVars>>

\* play() only for a list that holds something.
up_play_nonempty(h) ==
  /\ At(h, "up_play")
  /\ engine' = IF media_list = <<>> THEN engine ELSE "opening"
  /\ playCount' = IF media_list = <<>> THEN playCount ELSE playCount + 1
  /\ cmds' = [cmds EXCEPT ![h] = IF media_list = <<>> THEN @ ELSE Append(@, "play")]
  /\ Step(h)
  /\ UNCHANGED <<envVars, extVars, ready, cfgVars, result, pe, idx, enabled_videos, notifyCount,
                 media_list, mlLock, mode, cur, wsManager, prevVars, fd, wsVars>>

\* play() issued a second time by the same call (a retry).
up_play_retry(h) ==
  /\ At(h, "up_play")
  /\ engine' = IF media_list = <<>> THEN engine ELSE "opening"
  /\ playCount' = playCount + 2
  /\ cmds' = [cmds EXCEPT ![h] = Append(Append(@, "play"), "play")]
  /\ Step(h)
  /\ UNCHANGED <<envVars, extVars, ready, cfgVars, result, pe, idx, enabled_videos, notifyCount,
                 media_list, mlLock, mode, cur, wsManager, prevVars, fd, wsVars>>

\* self.list_player.play(): the command is issued whatever the list holds; the
\* engine has nothing to open when the list is empty and stays stopped.
up_play(h) ==
  /\ At(h, "up_play")
  /\ engine' = IF media_list = <<>> THEN engine ELSE "opening"
  /\ playCount' = playCount + 1
  /\ cmds' = [cmds EXCEPT ![h] = Append(@, "play")]
  /\ Step(h)
  /\ UNCHANGED <<envVars, extVars, ready, cfgVars, result, pe, idx, enabled_videos, notifyCount,
                 media_list, mlLock, mode, cur, wsManager, prevVars, fd, wsVars>>

\* The notification left out.
up_notify_skipped(h) ==
  /\ At(h, "up_notify")
  /\ Step(h)
  /\ UNCHANGED <<envVars, extVars, ready, cfgVars, result, pe, callVars, engVars, wsManager,
                 prevVars, fd, wsVars>>

\* if self.websocket_manager: self.websocket_manager.notify_playlist_change()
\* notify_playlist_change -> _send_playlist_update: one broadcast, of the
\* enabled entries of config['videos'] as they are now, sorted by order.
up_notify(h) ==
  /\ At(h, "up_notify")
  /\ notifyCount' = [notifyCount EXCEPT ![h] = IF wsManager THEN @ + 1 ELSE @]
  /\ playlist_event' = [playlist_event EXCEPT ![h] =
        IF wsManager THEN SortedByOrder(SelectSeq(videos, IsEnabled)) ELSE @]
  /\ Step(h)
  /\ UNCHANGED <<envVars, subVars, playerMedia, st, saves, buildVars, scanned, shut, mdVars,
                 resolvers, scannedPaths, overlapped, ready, cfgVars, result, pe, idx,
                 enabled_videos, cmds, playCount, engVars, wsManager, prevVars, fd, wsVars>>

\* update_playlist returns to its caller: its locals are gone.  What the call
\* left in the media list is noted for the comparison with the next call.
up_ret(h) ==
  /\ At(h, "up_ret")
  /\ enabled_videos' = [enabled_videos EXCEPT ![h] = <<>>]
  /\ idx' = [idx EXCEPT ![h] = 0]
  /\ cmds' = [cmds EXCEPT ![h] = <<>>]
  /\ playlist_event' = [playlist_event EXCEPT ![h] = <<>>]
  /\ lastList' = [i \in 1..Len(media_list) |-> media_list[i].path]
  /\ changedSince' = FALSE
  /\ Step(h)
  /\ UNCHANGED <<envVars, subVars, playerMedia, st, saves, scanned, shut, mdVars, resolvers,
                 scannedPaths, overlapped, ready,
                 cfgVars, result, pe, playCount, notifyCount, engVars,
                 wsManager, prevVars, fd, wsVars>>

update_playlist(h) ==
  \/ up_stop(h) \/ up_lock(h) \/ up_clear(h) \/ up_get(h) \/ up_add(h)
  \/ up_unlock(h) \/ up_mode(h) \/ up_play(h) \/ up_notify(h) \/ up_ret(h)

\* ------------------------------------------------------------- the media engine
\* The engine opens the first item of the list it was told to play; the item
\* becomes the media of the underlying player, which keeps it when stopped.
EngineStarted ==
  /\ engine = "opening"
  /\ media_list # <<>>
  /\ engine' = "playing"
  /\ cur' = 1
  /\ playerMedia' = media_list[1].path
  /\ UNCHANGED <<envVars, subVars, st, saves, buildVars, scanned, shut, mdVars, runVars, ready, cfgVars, todo, result, pe, callVars, media_list, mlLock,
                 mode, wsManager, prevVars, fd, wsVars>>

\* The engine cannot open the media: playback does not start.
EngineFailed ==
  /\ engine = "opening"
  /\ engine' = "error"
  /\ cur' = 0
  /\ UNCHANGED <<envVars, extVars, ready, cfgVars, todo, result, pe, callVars, media_list, mlLock,
                 mode, wsManager, prevVars, fd, wsVars>>

\* The active item ends: the next one plays, and in loop mode the first one
\* follows the last.
EngineNext ==
  /\ engine = "playing"
  /\ media_list # <<>>
  /\ IF cur < Len(media_list)
     THEN cur' = cur + 1 /\ UNCHANGED engine
     ELSE IF mode = "loop"
          THEN cur' = 1 /\ UNCHANGED engine
          ELSE cur' = 0 /\ engine' = "stopped"
  /\ playerMedia' = IF cur' = 0 THEN playerMedia ELSE media_list[cur'].path
  /\ UNCHANGED <<envVars, subVars, st, saves, buildVars, scanned, shut, mdVars, runVars, ready, cfgVars, todo, result, pe, callVars, media_list, mlLock,
                 mode, wsManager, prevVars, fd, wsVars>>

Engine == EngineStarted \/ EngineFailed \/ EngineNext

\* ------------------------------------------------------------- construction
\* VideoPlayer.set_websocket_manager, called once the WebSocketManager exists;
\* from then on requests are served.
set_websocket_manager(h) ==
  /\ At(h, "set_wsm")
  /\ wsManager' = TRUE
  /\ ready' = TRUE
  /\ Step(h)
  /\ UNCHANGED <<envVars, extVars, cfgVars, result, pe, callVars, engVars, prevVars, fd, wsVars>>

\* app.py: `player = VideoPlayer()` has returned.
app_ready(h) ==
  /\ At(h, "app_ready")
  /\ ready' = TRUE
  /\ Step(h)
  /\ UNCHANGED <<envVars, extVars, cfgVars, result, pe, callVars, engVars, wsManager, prevVars,
                 fd, wsVars>>

\* app.py VideoPlayer.save_config: the write may fail; the failure is logged
\* and swallowed, and _start_or_stop_preview runs only after a successful write.
app_save(h) ==
  /\ At(h, "app_save")
  /\ saves' = IF ready THEN [saves EXCEPT ![h] = Append(@, IF disk_ok THEN "ok" ELSE "failed")]
              ELSE saves
  /\ Goto(h, IF disk_ok THEN start_or_stop_preview_steps \o Tail(todo[h]) ELSE Tail(todo[h]))
  /\ UNCHANGED <<envVars, subVars, playerMedia, st, buildVars, scanned, shut, mdVars, runVars, ready, cfgVars, result, pe, callVars, engVars, wsManager,
                 prevVars, fd, wsVars>>

\* The route returns jsonify({'status': 'success'}).
ret_ok(h) ==
  /\ At(h, "ret_ok")
  /\ result' = [result EXCEPT ![h] = "success"]
  /\ Step(h)
  /\ UNCHANGED <<envVars, extVars, ready, cfgVars, pe, callVars, engVars, wsManager, prevVars,
                 fd, wsVars>>

\* ------------------------------------------------------------- the environment
\* The configuration file becomes unwritable (disk full, permissions) or
\* writable again.
DiskChanges ==
  /\ disk_ok' = ~disk_ok
  /\ UNCHANGED <<variant, extVars, ready, cfgVars, todo, result, pe, callVars, engVars, wsManager,
                 prevVars, fd, wsVars>>

\* ------------------------------------------------------------- update_config
\* POST /update_config with a 'videos' list `req`.
\* pkg: ConfigManager.update_videos replaces config['videos'] and saves; a
\*      failed save raises and the route answers with an error, else
\*      update_playlist runs.
\* app: the route replaces config['videos'], then save_config, update_playlist.
update_config_videos(h, req) ==
  /\ ready
  /\ Idle(h)
  /\ videos' = update_videos_list(req)
  /\ changedSince' = (changedSince \/ videos' # videos)
  /\ overlapped' = (\E g \in Handlers \ {h} : ~Idle(g))
  /\ UNCHANGED lastList
  /\ IF variant = "pkg"
     THEN IF disk_ok
          THEN /\ Goto(h, UP_pkg \o <<"ret_ok">>)
               /\ result' = [result EXCEPT ![h] = "none"]
               /\ saves' = [saves EXCEPT ![h] = <<"ok">>]
          ELSE /\ UNCHANGED todo
               /\ result' = [result EXCEPT ![h] = "error"]
               /\ saves' = [saves EXCEPT ![h] = <<"failed">>]
     ELSE /\ Goto(h, <<"app_save">> \o UP_app \o <<"ret_ok">>)
          /\ result' = [result EXCEPT ![h] = "none"]
          /\ saves' = [saves EXCEPT ![h] = <<>>]
  /\ UNCHANGED <<envVars, subVars, playerMedia, st, scanned, shut, mdVars, resolvers,
                 scannedPaths, playlist_event, ready, preview_enabled, pe, callVars, engVars,
                 wsManager,
                 prevVars, fd, wsVars>>

\* POST /update_config without a 'videos' key (a display name only).
\* pkg: update_display_name saves, and no playlist rebuild follows.
\* app: save_config and update_playlist run all the same.
update_config_name(h) ==
  /\ ready
  /\ Idle(h)
  /\ IF variant = "pkg"
     THEN /\ result' = [result EXCEPT ![h] = IF disk_ok THEN "success" ELSE "error"]
          /\ saves' = [saves EXCEPT ![h] = <<IF disk_ok THEN "ok" ELSE "failed">>]
          /\ UNCHANGED todo
     ELSE /\ Goto(h, <<"app_save">> \o UP_app \o <<"ret_ok">>)
          /\ result' = [result EXCEPT ![h] = "none"]
          /\ saves' = [saves EXCEPT ![h] = <<>>]
  /\ UNCHANGED <<envVars, subVars, playerMedia, st, buildVars, scanned, shut, mdVars, runVars, ready, cfgVars, pe, callVars, engVars, wsManager, prevVars,
                 fd, wsVars>>

\* ------------------------------------------------------------- preview
Alive(s) == s # 0 /\ samplers[s] \notin {"none", "done"}

\* Thread objects that can be created: never started, or ended and no longer
\* referenced by the player.
FreeSamplers(ref) == {s \in SamplerIds : samplers[s] = "none" \/ (samplers[s] = "done" /\ s # ref)}

\* _start_or_stop_preview, first half: read the flag; forget (not stop) a
\* thread that is alive; start a thread when enabled and none is referenced.
ssp_threads(h) ==
  /\ At(h, "ssp_threads")
  /\ LET ref == IF Alive(snapshot_thread) THEN 0 ELSE snapshot_thread
         start == preview_enabled /\ ref = 0
     IN IF start
        THEN /\ FreeSamplers(ref) # {}
             /\ LET new == Lowest(FreeSamplers(ref))
                IN /\ samplers' = [samplers EXCEPT ![new] = "loop"]
                   /\ tickEnabled' = [tickEnabled EXCEPT ![new] = TRUE]
                   /\ snapshot_thread' = new
        ELSE /\ snapshot_thread' = ref
             /\ UNCHANGED <<samplers, tickEnabled>>
  /\ pe' = [pe EXCEPT ![h] = preview_enabled]
  /\ Step(h)
  /\ UNCHANGED <<envVars, extVars, ready, cfgVars, result, callVars, engVars, wsManager,
                 snapshot_lock, file, capturedSince, fd, wsVars>>

\* _start_or_stop_preview, second half: remove the snapshot when disabled.  A
\* reader that has the file open keeps the removed file's content.
ssp_cleanup(h) ==
  /\ At(h, "ssp_cleanup")
  /\ IF ~pe[h] /\ file # "absent"
     THEN /\ file' = "absent"
          /\ fd' = [g \in Handlers |-> IF fd[g] = "open" THEN "unlinked" ELSE fd[g]]
     ELSE UNCHANGED <<file, fd>>
  /\ Step(h)
  /\ UNCHANGED <<envVars, extVars, ready, cfgVars, result, pe, callVars, engVars, wsManager,
                 samplers, tickEnabled, snapshot_thread, snapshot_lock, capturedSince,
                 wsVars>>

start_or_stop_preview(h) == ssp_threads(h) \/ ssp_cleanup(h)

\* POST /toggle_preview.
\* pkg: ConfigManager.toggle_preview flips the flag and saves (a failed save
\*      raises: the route answers with an error), then handle_preview_toggle.
\* app: the route flips the flag, then save_config.
toggle_preview(h) ==
  /\ ready
  /\ Idle(h)
  /\ preview_enabled' = ~preview_enabled
  /\ capturedSince' = IF preview_enabled THEN capturedSince ELSE FALSE
  /\ IF variant = "pkg"
     THEN IF disk_ok
          THEN /\ Goto(h, <<"hpt", "ret_ok">>)
               /\ result' = [result EXCEPT ![h] = "none"]
               /\ saves' = [saves EXCEPT ![h] = <<"ok">>]
          ELSE /\ UNCHANGED todo
               /\ result' = [result EXCEPT ![h] = "error"]
               /\ saves' = [saves EXCEPT ![h] = <<"failed">>]
     ELSE /\ Goto(h, <<"app_save", "ret_ok">>)
          /\ result' = [result EXCEPT ![h] = "none"]
          /\ saves' = [saves EXCEPT ![h] = <<>>]
  /\ UNCHANGED <<envVars, subVars, playerMedia, st, buildVars, scanned, shut, mdVars, runVars, ready, videos, pe, callVars, engVars, wsManager, samplers,
                 tickEnabled, snapshot_thread, snapshot_lock, file, fd, wsVars>>

\* VideoPlayer.handle_preview_toggle(enabled): brings the sampler and the
\* snapshot file in line with the flag.
handle_preview_toggle(h) ==
  /\ At(h, "hpt")
  /\ Goto(h, start_or_stop_preview_steps \o Tail(todo[h]))
  /\ UNCHANGED <<envVars, extVars, ready, cfgVars, result, pe, callVars, engVars, wsManager,
                 prevVars, fd, wsVars>>

\* _snapshot_loop, the loop head (reached after each one-second sleep).
\* pkg: while config['preview_enabled'];  app: while True.
snap_loop(s) ==
  /\ samplers[s] = "loop"
  /\ samplers' = [samplers EXCEPT ![s] =
                    IF variant = "pkg" /\ ~preview_enabled THEN "done" ELSE "is_playing"]
  /\ tickEnabled' = [tickEnabled EXCEPT ![s] = preview_enabled]
  /\ UNCHANGED <<envVars, extVars, ready, cfgVars, todo, result, pe, callVars, engVars, wsManager,
                 snapshot_thread, snapshot_lock, file, capturedSince, fd, wsVars>>

\* if self.player.is_playing():
snap_is_playing(s) ==
  /\ samplers[s] = "is_playing"
  /\ samplers' = [samplers EXCEPT ![s] = IF engine = "playing" THEN "acquire" ELSE "loop"]
  /\ UNCHANGED <<envVars, extVars, ready, cfgVars, todo, result, pe, callVars, engVars, wsManager,
                 tickEnabled, snapshot_thread, snapshot_lock, file, capturedSince, fd,
                 wsVars>>

\* with self.snapshot_lock:
snap_acquire(s) ==
  /\ samplers[s] = "acquire"
  /\ snapshot_lock = 0
  /\ snapshot_lock' = s
  /\ samplers' = [samplers EXCEPT ![s] = "capture"]
  /\ UNCHANGED <<envVars, extVars, ready, cfgVars, todo, result, pe, callVars, engVars, wsManager,
                 tickEnabled, snapshot_thread, file, capturedSince, fd, wsVars>>

\* video_take_snapshot starts: the file is opened for writing in place, or no
\* picture can be taken (nothing is written, the lock is released), or the
\* call raises (the with-block releases the lock on the way to the except
\* clause).
snap_capture(s) ==
  /\ samplers[s] = "capture"
  /\ \E outcome \in {"writes", "nothing", "raises"} :
       IF outcome = "writes"
       THEN /\ file' = "partial"
            /\ samplers' = [samplers EXCEPT ![s] = "writing"]
            /\ UNCHANGED snapshot_lock
       ELSE /\ samplers' = [samplers EXCEPT ![s] =
                               IF outcome = "raises" THEN "caught" ELSE "loop"]
            /\ snapshot_lock' = 0
            /\ UNCHANGED file
  /\ UNCHANGED <<envVars, extVars, ready, cfgVars, todo, result, pe, callVars, engVars, wsManager,
                 tickEnabled, snapshot_thread, capturedSince, fd, wsVars>>

\* video_take_snapshot ends: the image is complete (unless the file was removed
\* under the writer); the with-block releases the lock; the thread sleeps.
snap_written(s) ==
  /\ samplers[s] = "writing"
  /\ file' = IF file = "partial" THEN "complete" ELSE file
  /\ capturedSince' = TRUE
  /\ snapshot_lock' = 0
  /\ samplers' = [samplers EXCEPT ![s] = "loop"]
  /\ UNCHANGED <<envVars, extVars, ready, cfgVars, todo, result, pe, callVars, engVars, wsManager,
                 tickEnabled, snapshot_thread, fd, wsVars>>

\* except Exception as e: logger.error(...); then the one-second wait and the
\* loop head.
snap_caught(s) ==
  /\ samplers[s] = "caught"
  /\ samplers' = [samplers EXCEPT ![s] = "loop"]
  /\ UNCHANGED <<envVars, extVars, ready, cfgVars, todo, result, pe, callVars, engVars, wsManager,
                 tickEnabled, snapshot_thread, snapshot_lock, file, capturedSince, fd, wsVars>>

snapshot_loop(s) ==
  \/ snap_loop(s) \/ snap_is_playing(s) \/ snap_acquire(s) \/ snap_capture(s)
  \/ snap_written(s) \/ snap_caught(s)

\* GET /preview.png.
preview_start(h) ==
  /\ ready
  /\ Idle(h)
  /\ IF ~preview_enabled
     THEN /\ result' = [result EXCEPT ![h] = "404"]
          /\ UNCHANGED todo
     ELSE /\ result' = [result EXCEPT ![h] = "none"]
          /\ Goto(h, <<"pv_exists", "pv_lock", "pv_send", "pv_body">>)
  /\ UNCHANGED <<envVars, extVars, ready, cfgVars, pe, callVars, engVars, wsManager, prevVars, fd,
                 wsVars>>

\* if not os.path.exists(snapshot_path): serve the placeholder image.
pv_exists(h) ==
  /\ At(h, "pv_exists")
  /\ IF file = "absent"
     THEN /\ result' = [result EXCEPT ![h] = "no_preview"]
          /\ Goto(h, <<>>)
     ELSE /\ Step(h)
          /\ UNCHANGED result
  /\ UNCHANGED <<envVars, extVars, ready, cfgVars, pe, callVars, engVars, wsManager, prevVars, fd,
                 wsVars>>

\* with video_player.snapshot_lock:
pv_lock(h) ==
  /\ At(h, "pv_lock")
  /\ snapshot_lock = 0
  /\ snapshot_lock' = LockId(h)
  /\ Step(h)
  /\ UNCHANGED <<envVars, extVars, ready, cfgVars, result, pe, callVars, engVars, wsManager, samplers,
                 tickEnabled, snapshot_thread, file, capturedSince, fd, wsVars>>

\* return send_file(snapshot_path): send_file opens the file and returns a
\* response that streams it; `return` leaves the with-block, so the lock is
\* released before the server reads the body.  A file removed since the
\* existence check raises, and the placeholder is served.
pv_send(h) ==
  /\ At(h, "pv_send")
  /\ snapshot_lock' = 0
  /\ IF file = "absent"
     THEN /\ result' = [result EXCEPT ![h] = "no_preview"]
          /\ Goto(h, <<>>)
          /\ UNCHANGED fd
     ELSE /\ fd' = [fd EXCEPT ![h] = "open"]
          /\ Step(h)
          /\ UNCHANGED result
  /\ UNCHANGED <<envVars, extVars, ready, cfgVars, pe, callVars, engVars, wsManager, samplers,
                 tickEnabled, snapshot_thread, file, capturedSince, wsVars>>

\* The server sends the response body: it reads the opened file as it is now.
pv_body(h) ==
  /\ At(h, "pv_body")
  /\ result' = [result EXCEPT ![h] =
                  IF fd[h] = "open" /\ file = "partial" THEN "partial_image" ELSE "image"]
  /\ fd' = [fd EXCEPT ![h] = "closed"]
  /\ Step(h)
  /\ UNCHANGED <<envVars, extVars, ready, cfgVars, pe, callVars, engVars, wsManager, prevVars, wsVars>>

preview(h) == preview_start(h) \/ pv_exists(h) \/ pv_lock(h) \/ pv_send(h) \/ pv_body(h)

\* ------------------------------------------------------------- websocket
StatusAlive(t) == t # 0 /\ statusThreads[t] \notin {"none", "done"}
FreeStatus(ref) ==
  {t \in StatusIds : statusThreads[t] = "none" \/ (statusThreads[t] = "done" /\ t # ref)}

\* The status updates ensured before the two initial messages are sent.
handle_connect_steps_ensure_first == <<"ens_check", "hc_metadata", "hc_playlist">>

\* handle_connect, statement by statement (pkg only: app.py has no websocket).
handle_connect_steps == <<"hc_metadata", "hc_playlist", "ens_check">>

\* A subscriber connects: the 'connect' handler starts.
connect(h) ==
  /\ variant = "pkg"
  /\ ready
  /\ Idle(h)
  /\ subscribers < MaxSubscribers
  /\ subscribers' = subscribers + 1
  /\ everConnected' = TRUE
  /\ sent' = [sent EXCEPT ![h] = <<>>]
  /\ result' = [result EXCEPT ![h] = "none"]
  /\ Goto(h, handle_connect_steps)
  /\ UNCHANGED <<envVars, playerMedia, st, saves, buildVars, scanned, shut, mdVars, runVars, ready,
                 cfgVars, pe, callVars, engVars, wsManager, prevVars, fd,
                 running, status_thread, statusThreads, sentAtStart, emitted>>

\* The status thread torn down when the last subscriber leaves.
disconnect_stops ==
  /\ subscribers > 0
  /\ subscribers' = subscribers - 1
  /\ running' = IF subscribers = 1 THEN FALSE ELSE running
  /\ UNCHANGED <<envVars, everConnected, playerMedia, st, saves, buildVars, scanned, shut,
                 mdVars, runVars, ready, cfgVars, todo, result, pe, callVars, engVars, wsManager,
                 prevVars, fd, status_thread, statusThreads, sentAtStart, emitted, sent>>

\* A subscriber disconnects.  WebSocketManager registers no 'disconnect'
\* handler: nothing of the program runs.
disconnect ==
  /\ subscribers > 0
  /\ subscribers' = subscribers - 1
  /\ UNCHANGED <<envVars, everConnected, playerMedia, st, saves, buildVars, scanned, shut,
                 mdVars, runVars, ready, cfgVars, todo, result, pe, callVars, engVars, wsManager,
                 prevVars, fd, wsVars>>

\* emit('metadata_update', {videos, display_name})
hc_metadata(h) ==
  /\ At(h, "hc_metadata")
  /\ sent' = [sent EXCEPT ![h] = Append(@, "metadata_update")]
  /\ Step(h)
  /\ UNCHANGED <<envVars, extVars, ready, cfgVars, result, pe, callVars, engVars, wsManager, prevVars,
                 fd, running, status_thread, statusThreads, sentAtStart, emitted>>

\* self._send_playlist_update(): socketio.emit('playlist_update', ...), which
\* reaches every subscriber, the connecting one included.
hc_playlist(h) ==
  /\ At(h, "hc_playlist")
  /\ sent' = [sent EXCEPT ![h] = Append(@, "playlist_update")]
  /\ Step(h)
  /\ UNCHANGED <<envVars, extVars, ready, cfgVars, result, pe, callVars, engVars, wsManager, prevVars,
                 fd, running, status_thread, statusThreads, sentAtStart, emitted>>

\* _ensure_status_updates: if not self.status_thread or not is_alive():
ens_check(h) ==
  /\ At(h, "ens_check")
  /\ Goto(h, IF StatusAlive(status_thread) THEN Tail(todo[h])
             ELSE <<"ens_start">> \o Tail(todo[h]))
  /\ UNCHANGED <<envVars, extVars, ready, cfgVars, result, pe, callVars, engVars, wsManager, prevVars,
                 fd, wsVars>>

\* self.running = True; self.status_thread = Thread(...); start()
ens_start(h) ==
  /\ At(h, "ens_start")
  /\ FreeStatus(0) # {}
  /\ LET new == Lowest(FreeStatus(0))
     IN /\ statusThreads' = [statusThreads EXCEPT ![new] = "loop"]
        /\ sentAtStart' = [sentAtStart EXCEPT ![new] = sent[h]]
        /\ emitted' = [emitted EXCEPT ![new] = FALSE]
        /\ status_thread' = new
  /\ running' = TRUE
  /\ Step(h)
  /\ UNCHANGED <<envVars, extVars, ready, cfgVars, result, pe, callVars, engVars, wsManager, prevVars,
                 fd, sent>>

handle_connect(h) == connect(h) \/ hc_metadata(h) \/ hc_playlist(h) \/ ens_check(h) \/ ens_start(h)

\* _status_update_loop, the loop head (reached after each five-second sleep).
status_loop(t) ==
  /\ statusThreads[t] = "loop"
  /\ statusThreads' = [statusThreads EXCEPT ![t] = IF running THEN "emit" ELSE "done"]
  /\ UNCHANGED <<envVars, extVars, ready, cfgVars, todo, result, pe, callVars, engVars, wsManager,
                 prevVars, fd, running, status_thread, sentAtStart, emitted, sent>>

\* An exception of the iteration ends the thread (no try/except in the loop).
status_emit_uncaught(t) ==
  /\ statusThreads[t] = "emit"
  /\ \E raises \in BOOLEAN :
       IF raises
       THEN /\ statusThreads' = [statusThreads EXCEPT ![t] = "done"]
            /\ UNCHANGED emitted
       ELSE /\ emitted' = [emitted EXCEPT ![t] = TRUE]
            /\ statusThreads' = [statusThreads EXCEPT ![t] = "loop"]
  /\ UNCHANGED <<envVars, extVars, ready, cfgVars, todo, result, pe, callVars, engVars, wsManager,
                 prevVars, fd, running, status_thread, sentAtStart, sent>>

\* try: socketio.emit('status_update', self._get_current_status())
\* The status read or the emit may raise: control goes to the except clause.
status_emit(t) ==
  /\ statusThreads[t] = "emit"
  /\ \E raises \in BOOLEAN :
       IF raises
       THEN /\ statusThreads' = [statusThreads EXCEPT ![t] = "caught"]
            /\ UNCHANGED emitted
       ELSE /\ emitted' = [emitted EXCEPT ![t] = TRUE]
            /\ statusThreads' = [statusThreads EXCEPT ![t] = "loop"]
  /\ UNCHANGED <<envVars, extVars, ready, cfgVars, todo, result, pe, callVars, engVars, wsManager,
                 prevVars, fd, running, status_thread, sentAtStart, sent>>

\* except Exception as e: logger.error(...); then time.sleep(5) and the loop head.
status_caught(t) ==
  /\ statusThreads[t] = "caught"
  /\ statusThreads' = [statusThreads EXCEPT ![t] = "loop"]
  /\ UNCHANGED <<envVars, extVars, ready, cfgVars, todo, result, pe, callVars, engVars, wsManager,
                 prevVars, fd, running, status_thread, sentAtStart, emitted, sent>>

status_update_loop(t) == status_loop(t) \/ status_emit(t) \/ status_caught(t)

\* ------------------------------------------------------------- status read
MsPerSecond == 1000

\* player.get_time(): milliseconds into the item, -1 when nothing plays.
TimesMs == IF engine = "playing" THEN {0, 999, 2500} ELSE {-1}

\* The lookup without `if not media: return None`: media.get_mrl() raises when
\* the player has no media.
get_current_video_unchecked(media, vs) ==
  IF media = "None" THEN "raise"
  ELSE LET hits == {i \in 1..Len(vs) : vs[i].path = media}
       IN IF hits = {} THEN "None" ELSE vs[Lowest(hits)].path

\* VideoPlayer.get_current_video (WebSocketManager._get_current_video_info is
\* the same code): None without media, else the first configuration entry
\* whose path the media's locator contains, else None.  The entry's title,
\* duration and path are stood for by its path.
get_current_video(media, vs) ==
  IF media = "None" THEN "None"
  ELSE LET hits == {i \in 1..Len(vs) : vs[i].path = media}
       IN IF hits = {} THEN "None" ELSE vs[Lowest(hits)].path

get_playback_status_steps == <<"gs_playing", "gs_time", "gs_video", "gs_ret">>

\* Somebody asks for the playback status (package build only).
status_read(h) ==
  /\ variant = "pkg"
  /\ ready
  /\ Idle(h)
  /\ st' = [st EXCEPT ![h] = NoStatus]
  /\ result' = [result EXCEPT ![h] = "none"]
  /\ Goto(h, get_playback_status_steps)
  /\ UNCHANGED <<envVars, subVars, playerMedia, saves, buildVars, scanned, shut, mdVars, runVars, ready,
                 cfgVars, pe, callVars, engVars, wsManager, prevVars, fd, wsVars>>

\* 'playing': self.player.is_playing()
gs_playing(h) ==
  /\ At(h, "gs_playing")
  /\ st' = [st EXCEPT ![h].playing = (engine = "playing")]
  /\ Step(h)
  /\ UNCHANGED <<envVars, subVars, playerMedia, saves, buildVars, scanned, shut, mdVars, runVars, ready,
                 cfgVars, result, pe, callVars, engVars, wsManager, prevVars, fd, wsVars>>

\* 'current_time': self.player.get_time() // 1000
gs_time(h) ==
  /\ At(h, "gs_time")
  /\ \E ms \in TimesMs : st' = [st EXCEPT ![h].current_time = ms \div MsPerSecond]
  /\ Step(h)
  /\ UNCHANGED <<envVars, subVars, playerMedia, saves, buildVars, scanned, shut, mdVars, runVars, ready,
                 cfgVars, result, pe, callVars, engVars, wsManager, prevVars, fd, wsVars>>

\* 'current_video': self.get_current_video()
gs_video(h) ==
  /\ At(h, "gs_video")
  /\ LET v == get_current_video(playerMedia, videos)
     IN st' = [st EXCEPT ![h].current_video = IF v = "raise" THEN "None" ELSE v,
                         ![h].raised = (v = "raise")]
  /\ Step(h)
  /\ UNCHANGED <<envVars, subVars, playerMedia, saves, buildVars, scanned, shut, mdVars, runVars, ready,
                 cfgVars, result, pe, callVars, engVars, wsManager, prevVars, fd, wsVars>>

\* The dictionary is returned, or the exception leaves the function.
gs_ret(h) ==
  /\ At(h, "gs_ret")
  /\ result' = [result EXCEPT ![h] = IF st[h].raised THEN "error" ELSE "status"]
  /\ Step(h)
  /\ UNCHANGED <<envVars, extVars, ready, cfgVars, pe, callVars, engVars, wsManager,
                 prevVars, fd, wsVars>>

get_playback_status(h) ==
  status_read(h) \/ gs_playing(h) \/ gs_time(h) \/ gs_video(h) \/ gs_ret(h)

\* ------------------------------------------------------------- shutdown
\* VideoPlayer.shutdown followed by WebSocketManager.shutdown.
shutdown_steps == <<"sd_stop", "sd_signal", "sd_join", "ws_signal", "ws_join", "sd_ret">>

\* The process shuts down: no request is accepted from here on, and both
\* shutdown methods run.
shutdown(h) ==
  /\ variant = "pkg"
  /\ ready
  /\ \A g \in Handlers : Idle(g)
  /\ ready' = FALSE
  /\ shut' = "begun"
  /\ Goto(h, shutdown_steps)
  /\ UNCHANGED <<envVars, subVars, playerMedia, st, saves, buildVars, scanned, mdVars, runVars, cfgVars,
                 result, pe, callVars, engVars, wsManager, prevVars, fd, wsVars>>

\* self.list_player.stop()
sd_stop(h) ==
  /\ At(h, "sd_stop")
  /\ engine' = "stopped"
  /\ cur' = 0
  /\ playCount' = 0
  /\ Step(h)
  /\ UNCHANGED <<envVars, extVars, ready, cfgVars, result, pe, idx, enabled_videos, cmds,
                 notifyCount, media_list, mlLock, mode, wsManager, prevVars, fd, wsVars>>

\* if self.snapshot_thread: self.config_manager.config['preview_enabled'] = False
\* With no thread referenced neither the flag is cleared nor a join is made.
sd_signal(h) ==
  /\ At(h, "sd_signal")
  /\ IF snapshot_thread # 0
     THEN /\ preview_enabled' = FALSE
          /\ Step(h)
     ELSE /\ UNCHANGED preview_enabled
          /\ Goto(h, Tail(Tail(todo[h])))
  /\ UNCHANGED <<envVars, extVars, ready, videos, result, pe, callVars, engVars, wsManager,
                 prevVars, fd, wsVars>>

\* self.snapshot_thread.join(timeout=1): returns when the thread has ended or
\* when the second is over, whichever comes first, and raises in neither case.
sd_join(h) ==
  /\ At(h, "sd_join")
  /\ Step(h)
  /\ UNCHANGED <<envVars, extVars, ready, cfgVars, result, pe, callVars, engVars, wsManager,
                 prevVars, fd, wsVars>>

\* WebSocketManager.shutdown: self.running = False
ws_signal(h) ==
  /\ At(h, "ws_signal")
  /\ running' = FALSE
  /\ Step(h)
  /\ UNCHANGED <<envVars, extVars, ready, cfgVars, result, pe, callVars, engVars, wsManager,
                 prevVars, fd, status_thread, statusThreads, sentAtStart, emitted, sent>>

\* if self.status_thread: self.status_thread.join(timeout=1)
ws_join(h) ==
  /\ At(h, "ws_join")
  /\ Step(h)
  /\ UNCHANGED <<envVars, extVars, ready, cfgVars, result, pe, callVars, engVars, wsManager,
                 prevVars, fd, wsVars>>

\* Both shutdown methods have returned.
sd_ret(h) ==
  /\ At(h, "sd_ret")
  /\ shut' = "returned"
  /\ Step(h)
  /\ UNCHANGED <<envVars, subVars, playerMedia, st, saves, buildVars, scanned, mdVars, runVars, ready,
                 cfgVars, result, pe, callVars, engVars, wsManager, prevVars, fd, wsVars>>

shutdown_run(h) ==
  \/ shutdown(h) \/ sd_stop(h) \/ sd_signal(h) \/ sd_join(h) \/ ws_signal(h) \/ ws_join(h)
  \/ sd_ret(h)

\* ------------------------------------------------------------- specifications
\* Playlist rebuilds from every configuration to every other, preview off.
InitPlaylist == Loaded /\ InitOf(Variants, ScanResults, {FALSE})

NextPlaylist ==
  \/ update_playlist(Main)
  \/ set_websocket_manager(Main)
  \/ app_ready(Main)
  \/ app_save(Main)
  \/ ret_ok(Main)
  \/ start_or_stop_preview(Main)
  \/ \E req \in Requests : update_config_videos(Main, req)
  \/ Engine


SpecPlaylist == InitPlaylist /\ [][NextPlaylist]_vars

\* The preview subsystem: one video or none, preview on or off at start; the
\* requests are the preview toggle, the preview read and a configuration save.
PreviewConfigs == {<<>>, <<[path |-> "a.mp4", enabled |-> TRUE, order |-> 0]>>}
InitPreview == Loaded /\ InitOf(Variants, PreviewConfigs, BOOLEAN)

NextPreview ==
  \/ update_playlist(Main)
  \/ set_websocket_manager(Main)
  \/ app_ready(Main)
  \/ app_save(Main)
  \/ ret_ok(Main)
  \/ start_or_stop_preview(Main)
  \/ toggle_preview(Main)
  \/ handle_preview_toggle(Main)
  \/ update_config_name(Main)
  \/ preview(Main)
  \/ \E s \in SamplerIds : snapshot_loop(s)
  \/ Engine

SpecPreview == InitPreview /\ [][NextPreview]_vars

\* The status broadcaster of the package build: subscribers connect on two
\* handler threads while the playlist is rebuilt.
InitStatus == Loaded /\ InitOf({"pkg"}, PreviewConfigs, {FALSE})

NextStatus ==
  \/ update_playlist(Main)
  \/ set_websocket_manager(Main)
  \/ ret_ok(Main)
  \/ start_or_stop_preview(Main)
  \/ \E req \in PreviewConfigs : update_config_videos(Main, req)
  \/ \E h \in Handlers : handle_connect(h)
  \/ disconnect
  \/ \E t \in StatusIds : status_update_loop(t)
  \/ shutdown(Main) \/ sd_stop(Main) \/ sd_signal(Main)
  \/ ws_signal(Main) \/ ws_join(Main) \/ sd_ret(Main)
  \/ Engine

SpecStatus == InitStatus /\ [][NextStatus]_vars

\* The program from its start on a persisted configuration of any content:
\* directory scan, construction, then update requests.
InitRescan ==
  /\ scanned = FALSE
  /\ media_files \in {[p \in Paths |-> [ms |-> 90000, ok |-> p \notin U, titled |-> FALSE]] :
                        U \in {{}, {"a.mp4"}}}
  /\ InitOf(Variants, Requests, {FALSE})

NextRescan ==
  \/ load_config(Main)
  \/ NextPlaylist

SpecRescan == InitRescan /\ [][NextRescan]_vars

\* Configuration updates of both builds while the configuration file is
\* writable at some times and not at others.
InitSave == Loaded /\ InitOf(Variants, PreviewConfigs, {FALSE})

NextSave ==
  \/ update_playlist(Main)
  \/ set_websocket_manager(Main)
  \/ app_ready(Main)
  \/ app_save(Main)
  \/ ret_ok(Main)
  \/ start_or_stop_preview(Main)
  \/ handle_preview_toggle(Main)
  \/ \E req \in PreviewConfigs : update_config_videos(Main, req)
  \/ update_config_name(Main)
  \/ toggle_preview(Main)
  \/ DiskChanges
  \/ \E s \in SamplerIds : snapshot_loop(s)
  \/ Engine

SpecSave == InitSave /\ [][NextSave]_vars

\* Shutdown of the package build: the preview is toggled, subscribers
\* connect, the configuration file is writable or not, and at some point the
\* process shuts down.
InitShutdown == Loaded /\ InitOf({"pkg"}, PreviewConfigs, BOOLEAN)

ProgramStepShutdown ==
  \/ update_playlist(Main)
  \/ set_websocket_manager(Main)
  \/ ret_ok(Main)
  \/ start_or_stop_preview(Main)
  \/ handle_preview_toggle(Main)
  \/ hc_metadata(Main) \/ hc_playlist(Main) \/ ens_check(Main) \/ ens_start(Main)
  \/ sd_stop(Main) \/ sd_signal(Main) \/ sd_join(Main)
  \/ ws_signal(Main) \/ ws_join(Main) \/ sd_ret(Main)

\* The two periodic threads with everything that starts and stops them.
NextTasks ==
  \/ ProgramStepShutdown
  \/ toggle_preview(Main)
  \/ connect(Main)
  \/ shutdown(Main)
  \/ \E s \in SamplerIds : snapshot_loop(s)
  \/ \E t \in StatusIds : status_update_loop(t)
  \/ Engine

SpecTasks == InitShutdown /\ [][NextTasks]_vars

NextShutdown ==
  \/ NextTasks
  \/ DiskChanges

SpecShutdown == InitShutdown /\ [][NextShutdown]_vars

\* Every thread of the program keeps running: the handler, each sampler
\* thread, each status thread.
FairShutdown ==
  /\ SpecShutdown
  /\ WF_vars(ProgramStepShutdown)
  /\ \A s \in SamplerIds : WF_vars(snapshot_loop(s))
  /\ \A t \in StatusIds : WF_vars(status_update_loop(t))

\* The metadata cache by itself: any two files, calls in any order, files
\* that become readable or unreadable between the calls.
InitMetadata ==
  /\ scanned = TRUE
  /\ media_files \in [Paths -> MediaFiles]
  /\ InitOf(Variants, {<<>>}, {FALSE})

NextMetadata ==
  \/ \E p \in Paths : get_video_metadata(p)
  \/ \E p \in Paths : MediaChanges(p)

SpecMetadata == InitMetadata /\ [][NextMetadata]_vars

\* Update requests on two handler threads at once, while the configuration
\* file is writable at some times and not at others.
ConcurrentConfigs ==
  { <<>>,
    <<[path |-> "a.mp4", enabled |-> TRUE, order |-> 0]>>,
    <<[path |-> "b.mp4", enabled |-> TRUE, order |-> 0],
      [path |-> "a.mp4", enabled |-> TRUE, order |-> 1]>> }
InitConcurrent == Loaded /\ InitOf(Variants, {<<>>}, {FALSE})

NextConcurrent ==
  \/ \E h \in Handlers : update_playlist(h)
  \/ set_websocket_manager(Main)
  \/ app_ready(Main)
  \/ \E h \in Handlers : app_save(h)
  \/ \E h \in Handlers : ret_ok(h)
  \/ \E h \in Handlers : start_or_stop_preview(h)
  \/ \E h \in Handlers : \E req \in ConcurrentConfigs : update_config_videos(h, req)
  \/ Engine
  \/ DiskChanges

SpecConcurrent == InitConcurrent /\ [][NextConcurrent]_vars

\* Callers of get_video_metadata on two threads, while files become readable
\* or unreadable.
ResolveFiles == {fs \in [Paths -> MediaFiles] : \A p \in Paths : fs[p].ms \in {0, 90000} /\ ~fs[p].titled}
InitResolve ==
  /\ scanned = TRUE
  /\ media_files \in ResolveFiles
  /\ InitOf(Variants, {<<>>}, {FALSE})

NextResolve ==
  \/ \E r \in Resolvers : resolve(r)
  \/ \E p \in Paths : MediaChanges(p)

SpecResolve == InitResolve /\ [][NextResolve]_vars

\* Status reads on a second thread while the package build rebuilds its
\* playlist on the first.
Reader == "h2"
ReadConfigs ==
  { <<>>,
    <<[path |-> "a.mp4", enabled |-> TRUE, order |-> 0]>>,
    <<[path |-> "b.mp4", enabled |-> TRUE, order |-> 1],
      [path |-> "a.mp4", enabled |-> FALSE, order |-> 0]>>,
    <<[path |-> "b.mp4", enabled |-> TRUE, order |-> 0],
      [path |-> "a.mp4", enabled |-> TRUE, order |-> 0]>> }
InitRead == Loaded /\ InitOf({"pkg"}, ReadConfigs, {FALSE})

NextRead ==
  \/ update_playlist(Main)
  \/ set_websocket_manager(Main)
  \/ ret_ok(Main)
  \/ start_or_stop_preview(Main)
  \/ \E req \in ReadConfigs : update_config_videos(Main, req)
  \/ get_playback_status(Reader)
  \/ Engine

SpecRead == InitRead /\ [][NextRead]_vars

\* The playlist specification with the threads of the program kept running:
\* a handler that has statements left runs them, the engine keeps going.
\* Requests arrive or not, as the users please.
ProgramStepPlaylist ==
  \/ update_playlist(Main)
  \/ set_websocket_manager(Main)
  \/ app_ready(Main)
  \/ app_save(Main)
  \/ ret_ok(Main)
  \/ start_or_stop_preview(Main)
  \/ Engine

FairPlaylist == SpecPlaylist /\ WF_vars(ProgramStepPlaylist)

\* ============================================================= claims
EnabledIdx(vs) == {i \in 1..Len(vs) : vs[i].enabled}

\* Entry i comes before entry j in the playlist: smaller order, or equal order
\* and earlier in the configuration list.
Before(vs, i, j) ==
  \/ vs[i].order < vs[j].order
  \/ vs[i].order = vs[j].order /\ i < j

\* The playlist position of the enabled entry i.
Rank(vs, i) == 1 + Cardinality({j \in EnabledIdx(vs) : Before(vs, j, i)})

\* The play command of every pending or running update_playlist of the main
\* handler has been issued.
Reloaded == \A i \in 1..Len(todo[Main]) : todo[Main][i] # "up_play"

\* C1: when update_playlist() returns (single configuration writer), the media
\* list holds exactly the paths of the enabled entries, one item per entry,
\* in ascending order of `order`, ties in configuration-list order.
C1_PlaylistIsEnabledSortedStable ==
  \A h \in Handlers :
    At(h, "up_ret") =>
      /\ Len(media_list) = Cardinality(EnabledIdx(videos))
      /\ \A i \in EnabledIdx(videos) :
           /\ Rank(videos, i) \in 1..Len(media_list)
           /\ media_list[Rank(videos, i)].path = videos[i].path

\* C1 witness: a rebuild returned on two enabled entries of equal order whose
\* configuration order is not the alphabetical one.
C1_Witness ==
  /\ At(Main, "up_ret")
  /\ Len(videos) = 2
  /\ videos[1].enabled /\ videos[2].enabled
  /\ videos[1].order = videos[2].order
  /\ videos[1].path = "b.mp4" /\ videos[2].path = "a.mp4"
  /\ ready

IsUpdateSequence(c, adds) ==
  \E r \in 0..Len(c) :
    /\ Len(c) = 1 + r + adds + 1
    /\ c[1] = "stop"
    /\ \A i \in 2..(1 + r) : c[i] = "remove_index"
    /\ \A i \in (2 + r)..(1 + r + adds) : c[i] = "add_media"
    /\ c[Len(c)] = "play"

\* C2: every update_playlist() call issues stop, then the removals, then the
\* additions of the new playlist, then play; and when play is issued (and from
\* then on) no item of the previous playlist is in the media list.
C2_StopClearRepopulatePlay ==
  \A h \in Handlers :
    /\ At(h, "up_ret") => IsUpdateSequence(cmds[h], Cardinality(EnabledIdx(videos)))
    /\ (At(h, "up_play") \/ At(h, "up_notify") \/ At(h, "up_ret")) =>
         \A i \in 1..Len(media_list) : ~media_list[i].old

\* C2 witness: a rebuild that found the engine loaded, removed two old items
\* and added one, has issued play.
C2_Witness ==
  /\ At(Main, "up_ret")
  /\ cmds[Main] = <<"stop", "remove_index", "remove_index", "add_media", "play">>
  /\ ready

\* C3 as stated: with no entry enabled, update_playlist() issues no play
\* command and the engine is not playing.
C3_NoPlayCommandWhenEmpty ==
  \A h \in Handlers :
    (At(h, "up_ret") /\ EnabledIdx(videos) = {}) => (playCount = 0 /\ engine # "playing")

\* C3 amended: with no entry enabled, update_playlist() issues the one play
\* command of every rebuild on the empty media list, which starts nothing: the
\* engine is stopped with no active item (Empty, isPlaying() false) and no
\* further play command follows.
C3_EmptyPlaylistStaysStopped ==
  (Reloaded /\ EnabledIdx(videos) = {}) =>
    /\ media_list = <<>>
    /\ engine = "stopped"
    /\ cur = 0
    /\ playCount = 1

\* C3 witness: the rebuild has returned to an idle handler on a configuration
\* whose entries are all disabled, after an earlier playlist had played.
C3_Witness ==
  /\ ready
  /\ Idle(Main)
  /\ result[Main] = "success"
  /\ Len(videos) = 2
  /\ EnabledIdx(videos) = {}
  /\ playCount = 1

C5_AtMostOneSampler == Cardinality({s \in SamplerIds : Alive(s)}) <= 1

\* C6: whenever no request is being handled and no capture is being written,
\* the snapshot file exists if and only if preview is enabled and a capture
\* has succeeded since preview was last enabled (so it is absent once the
\* toggle-off request has returned, and stays absent while preview is disabled).
C6_SnapshotIffPreviewCaptured ==
  (ready /\ Idle(Main) /\ \A s \in SamplerIds : samplers[s] # "writing") =>
    ((file # "absent") <=> (preview_enabled /\ capturedSince))

\* C7: while preview is disabled, a sampler thread captures only in the tick
\* that had begun while preview was still enabled: a tick that begins after the
\* toggle-off ends the thread and captures nothing.
C7_NoCaptureInLaterTick ==
  \A s \in SamplerIds :
    (samplers[s] = "writing" /\ ~preview_enabled) => tickEnabled[s]

\* C8: no read of the snapshot file overlaps a write in progress, and no
\* reader is served a partially written image.
C8_ReadExcludesWrite ==
  \A h \in Handlers :
    /\ ~(At(h, "pv_body") /\ fd[h] = "open" /\ \E s \in SamplerIds : samplers[s] = "writing")
    /\ result[h] # "partial_image"

\* C9: a connect handler emits metadata_update first and playlist_update
\* second, and a status thread started by a connection exists (so can emit a
\* status_update) only after both were emitted to that connection.
C9_MetadataThenPlaylistThenStatus ==
  /\ \A h \in Handlers :
       sent[h] \in {<<>>, <<"metadata_update">>, <<"metadata_update", "playlist_update">>}
  /\ \A t \in StatusIds :
       statusThreads[t] # "none" =>
         sentAtStart[t] = <<"metadata_update", "playlist_update">>

\* C9 witness: the status thread started by a connection has emitted a
\* status_update while another connection is between its two messages.
C9_Witness ==
  \E t \in StatusIds :
    /\ emitted[t]
    /\ sentAtStart[t] = <<"metadata_update", "playlist_update">>
    /\ \E h \in Handlers : At(h, "hc_playlist")

\* C10 as stated: every completed update_playlist() call has broadcast exactly
\* one playlist_update.
C10_EveryRebuildNotifies == \A h \in Handlers : At(h, "up_ret") => notifyCount[h] = 1

\* C10 amended: a completed update_playlist() call has broadcast exactly one
\* playlist_update when the WebSocket manager was attached, whether or not the
\* status cycle runs, and none when it was not (the constructor's call).
C10_NotifiesWhenManagerAttached ==
  \A h \in Handlers : At(h, "up_ret") => notifyCount[h] = (IF wsManager THEN 1 ELSE 0)

\* C10 witness: a rebuild returns after its one broadcast while no status
\* thread has been started.
C10_Witness ==
  /\ At(Main, "up_ret")
  /\ wsManager
  /\ notifyCount[Main] = 1
  /\ ~running
  /\ status_thread = 0

\* C11: no status thread exists (so no status_update is emitted) before a
\* subscriber has connected; a cycle that begins while `running` is set goes on
\* to its emit; a disconnect changes nothing of the status thread; `running` is
\* cleared only by shutdown(), and a status thread ends only when it is clear.
C11_StatusTaskLifecycle ==
  /\ []((\E t \in StatusIds : statusThreads[t] # "none" \/ emitted[t]) => everConnected)
  /\ [][\A t \in StatusIds :
         (statusThreads[t] = "loop" /\ statusThreads'[t] # "loop" /\ running) =>
            statusThreads'[t] = "emit"]_vars
  /\ [][subscribers' < subscribers =>
         UNCHANGED <<running, status_thread, statusThreads, emitted>>]_vars
  /\ [][(running /\ ~running') => At(Main, "ws_signal")]_vars
  /\ [][\A t \in StatusIds :
         (statusThreads[t] # "done" /\ statusThreads'[t] = "done") => ~running]_vars

\* C11 witness: every subscriber has left, and the status thread that the
\* first connection started has emitted and is still running.
C11_Witness ==
  /\ everConnected
  /\ subscribers = 0
  /\ running
  /\ \E t \in StatusIds : emitted[t] /\ statusThreads[t] = "emit"

\* C12: a status read that runs beside update_playlist() returns without
\* raising, and what it returns is well formed: playing is a boolean,
\* current_time an integer, current_video None or an entry of the
\* configuration as it was when the read looked it up; a read of the playing
\* flag made while the engine plays reports true.
C12_StatusReadWellFormed ==
  /\ [](\A h \in Handlers :
         /\ ~st[h].raised
         /\ result[h] # "error"
         /\ st[h].playing \in BOOLEAN
         /\ st[h].current_time \in Int
         /\ st[h].current_video \in Paths \cup {"None"})
  /\ [][\A h \in Handlers :
         (At(h, "gs_video") /\ ~At(h, "gs_video")') =>
           \/ st'[h].current_video = "None"
           \/ \E i \in 1..Len(videos) : videos[i].path = st'[h].current_video]_vars
  /\ [][\A h \in Handlers :
         (At(h, "gs_playing") /\ ~At(h, "gs_playing")') =>
           (st'[h].playing <=> engine = "playing")]_vars

\* C12 witness: a read made in the middle of a rebuild (the list is locked and
\* being repopulated) is about to return playing = false, with the media the
\* player held before the rebuild as current video.
C12_Witness ==
  /\ At(Reader, "gs_ret")
  /\ ~st[Reader].playing
  /\ st[Reader].current_time = -1
  /\ st[Reader].current_video = "b.mp4"
  /\ At(Main, "up_add")
  /\ mlLock = Main

\* C13: for every path the media is opened for extraction at most once: the
\* first call is the only one that opens it, every later call returns what the
\* first returned, and when the first extraction failed that is the degraded
\* metadata (filename title, empty description, duration 0), also after the
\* file has become readable.
C13_ExtractsAtMostOnce ==
  \A p \in Paths :
    /\ extractions[p] <= 1
    /\ \A i \in 1..Len(returned[p]) :
         /\ returned[p][i].opened <=> i = 1
         /\ returned[p][i].value = returned[p][1].value
    /\ (returned[p] # <<>> /\ returned[p][1].failed) =>
         returned[p][1].value = DegradedMetadata(p)

\* C13 witness: the first extraction of a file failed, the file has become
\* readable since, and two later calls have returned.
C13_Witness ==
  /\ Len(returned["a.mp4"]) = 3
  /\ returned["a.mp4"][1].failed
  /\ media_files["a.mp4"].ok
  /\ media_files["a.mp4"].ms = 90000
  /\ returned["a.mp4"][3].value.duration = 0

\* The duration of sequence element r is the ceiling of r.ms / 60000.
IsCeilMinutes(r) ==
  /\ (r.value.duration - 1) * MsPerMinute < r.ms
  /\ r.ms <= r.value.duration * MsPerMinute

\* C18: the stored duration is the ceiling of milliseconds / 60000 whenever
\* the extraction succeeded (90,000 ms: 2; 60,000 ms: 1; 1 ms: 1; the unknown
\* duration -1: 0), it is 0 when the extraction failed, and it is an integer
\* >= 0 in every case.
C18_DurationIsCeilingMinutes ==
  \A p \in Paths : \A i \in 1..Len(returned[p]) :
    LET r == returned[p][i]
    IN /\ r.value.duration \in Nat
       /\ (r.opened /\ ~r.failed) =>
            /\ IsCeilMinutes(r)
            /\ r.ms = 90000 => r.value.duration = 2
            /\ r.ms = 60000 => r.value.duration = 1
            /\ r.ms = 1 => r.value.duration = 1
            /\ r.ms = -1 => r.value.duration = 0
       /\ (r.opened /\ r.failed) => r.value.duration = 0

\* C18 witness: one file of 90,000 ms was extracted to 2 minutes and one of
\* unknown duration (-1) to 0.
C18_Witness ==
  /\ returned["a.mp4"] # <<>>
  /\ returned["a.mp4"][1].opened /\ ~returned["a.mp4"][1].failed
  /\ returned["a.mp4"][1].ms = 90000 /\ returned["a.mp4"][1].value.duration = 2
  /\ returned["b.mp4"] # <<>>
  /\ returned["b.mp4"][1].opened /\ ~returned["b.mp4"][1].failed
  /\ returned["b.mp4"][1].ms = -1 /\ returned["b.mp4"][1].value.duration = 0

C15_WriteFailureReported ==
  \A h \in Handlers :
    (ready /\ \E i \in 1..Len(saves[h]) : saves[h][i] = "failed") =>
      /\ Len(saves[h]) = 1
      /\ Idle(h)
      /\ result[h] = "error"

\* C16: an update_playlist() call that follows a completed one with no
\* configuration change in between leaves the media list with the same
\* members in the same order as the earlier call did.
C16_RebuildIdempotent ==
  \A h \in Handlers :
    (At(h, "up_ret") /\ ~changedSince) =>
      [i \in 1..Len(media_list) |-> media_list[i].path] = lastList

\* C16 witness: the second of two calls on an unchanged configuration has
\* torn down the two items of the first and added them again.
C16_Witness ==
  /\ At(Main, "up_ret")
  /\ ~changedSince
  /\ lastList = <<"b.mp4", "a.mp4">>
  /\ cmds[Main] = <<"stop", "remove_index", "remove_index", "add_media", "add_media", "play">>

\* C17: the directory scan gives every entry whose path was in the
\* configuration the enabled and order values of an entry of that path, and
\* apart from the scan the configuration changes only when an update request
\* is taken up.
C17_RescanKeepsRuntimeFields ==
  /\ [][(At(Main, "load_config") /\ scanned') =>
         \A i \in 1..Len(videos') :
           (\E j \in 1..Len(videos) : videos[j].path = videos'[i].path) =>
             \E j \in 1..Len(videos) :
               /\ videos[j].path = videos'[i].path
               /\ videos[j].enabled = videos'[i].enabled
               /\ videos[j].order = videos'[i].order]_vars
  /\ [][videos' # videos =>
         \/ At(Main, "load_config")
         \/ ready /\ \E h \in Handlers :
                       Idle(h) /\ (todo'[h] # <<>> \/ result'[h] = "error")]_vars

\* C17 witness: the scan has just run and its first entry is disabled with
\* order 1, which no scan gives a new file.
C17_Witness ==
  /\ scanned
  /\ ~ready
  /\ todo[Main] = construct_steps
  /\ Len(videos) = 2
  /\ videos[1] = [path |-> "a.mp4", enabled |-> FALSE, order |-> 1]
  /\ videos[2] = [path |-> "b.mp4", enabled |-> TRUE, order |-> 1]

\* C19: an iteration of a periodic thread that raised is followed by the
\* thread's next iteration (the lock of the sampler released), and a thread
\* ends only at its loop head, on its stop signal: the preview flag clear for a
\* sampler thread, `running` clear for a status thread.
C19_FailureDoesNotEndTask ==
  /\ [](\A s \in SamplerIds : samplers[s] = "caught" => snapshot_lock # s)
  /\ [][\A s \in SamplerIds :
         /\ samplers[s] = "caught" => samplers'[s] \in {"caught", "loop"}
         /\ (samplers[s] # "done" /\ samplers'[s] = "done") =>
              (samplers[s] = "loop" /\ ~preview_enabled)]_vars
  /\ [][\A t \in StatusIds :
         /\ statusThreads[t] = "caught" => statusThreads'[t] \in {"caught", "loop"}
         /\ (statusThreads[t] # "done" /\ statusThreads'[t] = "done") =>
              (statusThreads[t] = "loop" /\ ~running)]_vars

\* C19 witness: a sampler thread whose capture raised and a status thread
\* whose iteration raised are both back in an iteration, with no stop signal
\* given.
C19_Witness ==
  /\ preview_enabled
  /\ running
  /\ shut = "no"
  /\ \E s \in SamplerIds : samplers[s] = "caught"
  /\ \E t \in StatusIds : statusThreads[t] = "caught" /\ emitted[t]

\* C20: whenever the engine opens or plays an item its playback mode is loop
\* (the mode is set before play is issued); when the last entry of the list
\* ends the first one plays next; and playback ends only by a stop command,
\* never on its own.
C20_LoopModeWhilePlaying ==
  /\ [](engine \in {"opening", "playing"} => mode = "loop")
  /\ [](\A h \in Handlers : At(h, "up_play") => mode = "loop")
  /\ [][(engine = "playing" /\ cur = Len(media_list) /\ cur' # cur /\ ~At(Main, "up_stop")) =>
         (cur' = 1 /\ engine' = "playing")]_vars
  /\ [][(engine = "playing" /\ engine' # "playing") => At(Main, "up_stop")]_vars

\* C20 witness: the last of two entries is playing in loop mode (its end
\* brings the first one back).
C20_Witness ==
  /\ engine = "playing"
  /\ mode = "loop"
  /\ Len(media_list) = 2
  /\ cur = 2
  /\ playerMedia = media_list[2].path
  /\ Idle(Main)

\* C21: once the cache holds an entry for a path, no step removes the entry
\* or puts a different value in its place, however the calls of
\* get_video_metadata on several threads interleave.
C21_CacheWriteOnce ==
  [][\A p \in Paths : Cached(p) => (Cached(p)' /\ CacheOf(p)' = CacheOf(p))]_vars

\* C22: once the directory scan has run, the metadata cache holds an entry
\* for every path the scan has produced, the paths whose extraction failed
\* included.
C22_CacheCoversScannedPaths ==
  scanned => \A p \in scannedPaths : Cached(p)

\* C23: get_current_video returns None when the player has no media;
\* otherwise what it returns is the entry of the media's path, and that entry
\* is an enabled one, an entry of the playlist that the configuration gives.
C23_CurrentEntryIsPlaylistEntry ==
  [][\A h \in Handlers :
       (At(h, "gs_video") /\ ~At(h, "gs_video")') =>
         IF playerMedia = "None"
         THEN st'[h].current_video = "None"
         ELSE /\ st'[h].current_video = playerMedia
              /\ playerMedia \in PathsOf(get_enabled_videos(videos))]_vars

\* C24: once the program serves requests (the directory scan has run), no
\* two entries of config['videos'] have the same path, whatever update
\* requests have been made.
C24_PathIsUniqueKey ==
  ready => DistinctPaths(videos)

\* C25: at most one status thread is alive at any time, however the connect
\* handlers of several subscribers interleave.
C25_AtMostOneStatusThread ==
  Cardinality({t \in StatusIds : StatusAlive(t)}) <= 1

\* C26: when two update requests have run at the same time and both have
\* finished, the engine's media list is the list of the enabled entries of
\* the configuration as it is now, sorted by order, and none of its items is
\* left over from an earlier rebuild.
C26_ConcurrentRebuildsConverge ==
  (ready /\ \A h \in Handlers : Idle(h) /\ result[h] \in {"none", "success"}) =>
    /\ [i \in 1..Len(media_list) |-> media_list[i].path] =
         [i \in 1..Len(get_enabled_videos(videos)) |-> get_enabled_videos(videos)[i].path]
    /\ \A i \in 1..Len(media_list) : ~media_list[i].old
    /\ mlLock = NoOne

\* C26 witness: two requests overlapped and both have answered; the
\* configuration is the two-entry one and the engine plays its playlist.
C26_Witness ==
  /\ overlapped
  /\ \A h \in Handlers : Idle(h) /\ result[h] = "success"
  /\ videos = <<[path |-> "b.mp4", enabled |-> TRUE, order |-> 0],
                [path |-> "a.mp4", enabled |-> TRUE, order |-> 1]>>
  /\ media_list = <<[path |-> "b.mp4", old |-> FALSE], [path |-> "a.mp4", old |-> FALSE]>>
  /\ engine = "playing"

\* C27: the playlist that update_playlist broadcasts lists the paths that
\* this call loaded into the engine, in the same order.
C27_EventIsLoadedList ==
  \A h \in Handlers :
    (At(h, "up_ret") /\ notifyCount[h] > 0) =>
      [i \in 1..Len(playlist_event[h]) |-> playlist_event[h][i].path] =
      [i \in 1..Len(enabled_videos[h]) |-> enabled_videos[h][i].path]

\* C28: a step in which the save of update_videos, toggle_preview or
\* update_display_name fails leaves config['videos'] and
\* config['preview_enabled'] as they were before the call.
C28_FailedSaveLeavesConfig ==
  [][\A h \in Handlers :
       (saves'[h] # saves[h] /\ saves'[h] # <<>> /\ saves'[h][Len(saves'[h])] = "failed") =>
         (videos' = videos /\ preview_enabled' = preview_enabled)]_vars

====
